---- MODULE Spec2Model ----
(***************************************************************************)
(* A model of app.py, the S&P 500 finance dashboard.                       *)
(*                                                                         *)
(* The program is a Streamlit script: every user interaction re-runs       *)
(* main() from its first line with the widgets' current values.  Two       *)
(* functions are memoised by st.cache_data for the life of the process:    *)
(* load_sp500_components() (one entry) and load_quotes(symbol) (one entry  *)
(* per symbol).  st.cache_data stores a function's RETURN value; a call    *)
(* that raises stores nothing, and every hit hands out a fresh copy of     *)
(* the stored value.                                                       *)
(*                                                                         *)
(* A data frame is a sequence of rows in index order.  A float is kept     *)
(* exactly, as the fraction num/den: a price in cents is num/1, a mean     *)
(* of n prices is sum/n, and a missing value (NaN) is 0/0.                 *)
(***************************************************************************)
EXTENDS Integers, Sequences, FiniteSets, TLC

Float(num, den) == [num |-> num, den |-> den]
NaN == Float(0, 0)

\* How many times main() is re-run in one behaviour.
MaxRuns == 2

----------------------------------------------------------------------------
(* The two external sources.                                               *)

\* The symbols of the Wikipedia table, in table order.
TableSymbols == <<"MMM", "AAPL", "BRK.B", "SOLV", "ABNB">>

\* Wikipedia's company name of a symbol (the Security column).
Security(symbol) ==
    CASE symbol = "MMM" -> "3M"
      [] symbol = "AAPL" -> "Apple Inc."
      [] symbol = "BRK.B" -> "Berkshire Hathaway"
      [] symbol = "SOLV" -> "Solventum"
      [] symbol = "ABNB" -> "Airbnb"

\* What the market-data provider holds for a symbol: the number of daily
\* bars, and every how many bars one is incomplete (0: none is).  Yahoo
\* writes class shares with a dash (BRK-B), so Wikipedia's BRK.B is a
\* symbol the provider does not know.
History(symbol) ==
    CASE symbol = "MMM" -> [known |-> TRUE, bars |-> 2100, gap |-> 60]
      [] symbol = "AAPL" -> [known |-> TRUE, bars |-> 600, gap |-> 0]
      [] symbol = "SOLV" -> [known |-> TRUE, bars |-> 25, gap |-> 0]
      [] symbol = "ABNB" -> [known |-> TRUE, bars |-> 130, gap |-> 7]
      [] OTHER -> [known |-> FALSE, bars |-> 0, gap |-> 0]

\* The adjusted close of a symbol's i-th bar, in cents.
Price(i) == 100 + ((i * i * 7 + i * 13) % 89)

\* The provider's i-th bar: with gap g, bar i lacks its volume when
\* i % g = 1 and its adjusted close when i % g = 2.
Bar(i, g) ==
    [date |-> 3 * i + (i % 2),
     adj |-> IF g > 0 /\ i % g = 2 THEN NaN ELSE Float(Price(i), 1),
     vol |-> IF g > 0 /\ i % g = 1 THEN NaN ELSE Float(1000 + i, 1)]

\* yf.download(symbol, period='max', auto_adjust=False): the whole history
\* in date order; for a symbol the provider does not know it reports the
\* failed download and returns a frame without rows.
Download(symbol) ==
    LET h == History(symbol)
    IN  IF h.known THEN [i \in 1..h.bars |-> Bar(i, h.gap)] ELSE << >>

----------------------------------------------------------------------------
(* Data frames.                                                            *)

\* DataFrame.dropna(how='all'): only the rows that are all missing go.
DropNaAll(frame) ==
    LET SomeValue(row) == row.adj # NaN \/ row.vol # NaN
    IN  SelectSeq(frame, SomeValue)

\* DataFrame.dropna(): the rows without a missing field, in order.
Complete(row) == row.adj # NaN /\ row.vol # NaN
DropNa(frame) == SelectSeq(frame, Complete)

\* The position of the row dated d in a frame whose dates increase, or 0.
RECURSIVE Find(_, _, _, _)
Find(frame, d, lo, hi) ==
    IF lo > hi THEN 0
    ELSE IF frame[(lo + hi) \div 2].date = d THEN (lo + hi) \div 2
    ELSE IF frame[(lo + hi) \div 2].date < d
         THEN Find(frame, d, (lo + hi) \div 2 + 1, hi)
         ELSE Find(frame, d, lo, (lo + hi) \div 2 - 1)

\* The same position, looked for first at position `near`.
Locate(frame, d, near) ==
    IF near \in 1..Len(frame) /\ frame[near].date = d THEN near
    ELSE Find(frame, d, 1, Len(frame))

\* The running totals of the adjusted closes of rows lo..hi:
\* totals[i] = adj[lo] + ... + adj[lo + i - 1].
JoinTotals(left, right) ==
    left \o [k \in 1..Len(right) |-> right[k] + left[Len(left)]]
RECURSIVE TotalsOf(_, _, _)
TotalsOf(frame, lo, hi) ==
    IF lo > hi THEN << >>
    ELSE IF lo = hi THEN <<frame[lo].adj.num>>
    ELSE JoinTotals(TotalsOf(frame, lo, (lo + hi) \div 2),
                    TotalsOf(frame, (lo + hi) \div 2 + 1, hi))

\* Series.rolling(period, min_periods=1).mean(): a mean of what the
\* window holds, however little.
MeanAtAnyCount(totals, period, i) ==
    Float(totals[i] - (IF i <= period THEN 0 ELSE totals[i - period]),
          IF i < period THEN i ELSE period)

\* Series.rolling(period).mean(): at position i the mean of the `period`
\* values ending there (the window's total is kept by adding the value
\* that enters and taking off the one that leaves), and no value while
\* the window holds fewer than `period` observations.
MeanAt(totals, period, i) ==
    IF i < period THEN NaN
    ELSE Float(totals[i] - (IF i = period THEN 0 ELSE totals[i - period]),
               period)

\* Series.reindex(index): the series' value at each label of `index`,
\* and no value at a label the series does not hold.  The k-th label is
\* looked for first where the end of `index` lined up with the end of
\* the series would put it (`ahead` rows of the series come before).
ValueAt(totals, period, i) ==
    IF i = 0 THEN NaN ELSE MeanAt(totals, period, i)
Reindexed(frame, totals, period, index, ahead) ==
    [k \in 1..Len(index) |->
        ValueAt(totals, period, Locate(frame, index[k], ahead + k))]

\* frame[:n]: the first n rows.
FirstRows(frame, n) ==
    IF n >= Len(frame) THEN frame ELSE SubSeq(frame, 1, n)

\* frame[-n:]: the last n rows; -0 is 0, so frame[-0:] is the whole frame.
LastRows(frame, n) ==
    IF n = 0 \/ n >= Len(frame) THEN frame
    ELSE SubSeq(frame, Len(frame) - n + 1, Len(frame))

\* frame[['Adj Close']].copy(): a new frame of that one column.
AdjClose == <<"Adj Close">>
Project(rows) ==
    [index |-> [k \in 1..Len(rows) |-> rows[k].date],
     cols |-> [c \in {AdjClose} |-> [k \in 1..Len(rows) |-> rows[k].adj]]]

\* The rolling mean taken over the windowed rows only.
RollingOfWindow(frame, period, index) ==
    Reindexed(LastRows(frame, Len(index)),
              TotalsOf(LastRows(frame, Len(index)), 1,
                       Len(LastRows(frame, Len(index)))),
              period, index, 0)

\* frame['Adj Close'].rolling(period).mean().reindex(index): the rolling
\* mean of the WHOLE column, looked up by label at each date of `index`.
RollingReindexed(frame, period, index) ==
    Reindexed(frame, TotalsOf(frame, 1, Len(frame)), period, index,
              Len(frame) - Len(index))

\* data[-section:][['Adj Close']].copy()
WindowOf(frame, section) == Project(LastRows(frame, section))

\* data_view[name] = column: adds the column, or replaces the one so named.
SetColumn(view, name, column) ==
    [view EXCEPT !.cols =
        [c \in DOMAIN view.cols \cup {name} |->
            IF c = name THEN column ELSE view.cols[c]]]

\* The labels f"SMA {period}" and f"SMA2 {period2}".
SmaLabel(period) == <<"SMA ", period>>
Sma2Label(period) == <<"SMA2 ", period>>

----------------------------------------------------------------------------
(* The components list.                                                    *)

TableOf(symbols) ==
    [i \in 1..Len(symbols) |->
        [Symbol |-> symbols[i], Security |-> Security(symbols[i])]]

\* What a GET of SP500_URL can bring: no answer at all, a page without a
\* table, or a page whose first table is the constituents table: as it
\* is today, with a row repeated, or with its symbol column renamed.
Unreachable == [answered |-> FALSE, tables |-> << >>]
NoTablePage == [answered |-> TRUE, tables |-> << >>]
GoodPage == [answered |-> TRUE, tables |-> <<TableOf(TableSymbols)>>]
RepeatedRowPage ==
    [answered |-> TRUE,
     tables |-> <<TableOf(<<"MMM", "AAPL", "SOLV", "AAPL">>)>>]
RenamedColumnPage ==
    [answered |-> TRUE,
     tables |-> <<[i \in 1..Len(TableSymbols) |->
                    [Ticker |-> TableSymbols[i],
                     Security |-> Security(TableSymbols[i])]]>>]
Responses ==
    {Unreachable, NoTablePage, GoodPage, RepeatedRowPage, RenamedColumnPage}

Raise(exception) == [raised |-> exception, value |-> << >>]
Return(value) == [raised |-> "", value |-> value]

\* The body of load_sp500_components() on a GET's answer: requests.get
\* raises when the site cannot be reached, pd.read_html when the page
\* holds no table, set_index when the table has no Symbol column.
\* set_index does not look for repeated labels (verify_integrity=False).
LoadSp500Components(response) ==
    IF ~response.answered THEN Raise("ConnectionError")
    ELSE IF response.tables = << >> THEN Raise("ValueError")
    ELSE LET components == response.tables[1]
         IN  IF "Symbol" \notin DOMAIN components[1] THEN Raise("KeyError")
             ELSE Return([index |-> [i \in 1..Len(components) |->
                                        components[i].Symbol],
                          Security |-> [i \in 1..Len(components) |->
                                           components[i].Security]])

\* components.loc[symbol]: the one row labelled symbol as a Series, the
\* rows so labelled as a DataFrame when there are several.
Loc(components, symbol) ==
    LET hits == {i \in 1..Len(components.index) :
                    components.index[i] = symbol}
    IN  [type |-> IF Cardinality(hits) = 1 THEN "Series" ELSE "DataFrame",
         Security |-> {components.Security[i] : i \in hits}]

\* The options of the asset selectbox: the labels of components.index.
Options(components) ==
    {components.index[i] : i \in 1..Len(components.index)}

----------------------------------------------------------------------------
(* The quotes.                                                             *)

\* The body of load_quotes(symbol): the provider's frame; flattening the
\* column labels renames columns and leaves every row as it is.
LoadQuotes(symbol) == Download(symbol)

\* st.sidebar.slider(label, min_value, max_value, value, step): the
\* slider drawn.  Streamlit widens the bounds it is given until
\* min_value <= value <= max_value holds; the handle starts at `value`
\* and moves from the lower bound in steps.
Min(a, b) == IF a < b THEN a ELSE b
Max(a, b) == IF a > b THEN a ELSE b
Slider(min_value, max_value, value, step) ==
    [min_value |-> Min(value, Min(min_value, max_value)),
     max_value |-> Max(value, Max(Min(min_value, max_value), max_value)),
     value |-> value,
     step |-> step]
SliderValues(slider) ==
    {v \in slider.min_value..slider.max_value :
        (v - slider.min_value) % slider.step = 0} \cup {slider.value}

\* The 'Number of Quotes' slider of a frame of `len` rows.
SectionSlider(len) == Slider(30, Min(2000, len), 500, 10)
\* The 'SMA Period' and 'SMA 2 Period' sliders.
PeriodSlider == Slider(5, 500, 20, 1)
Period2Slider == Slider(5, 500, 100, 1)

----------------------------------------------------------------------------
(* The script.                                                             *)

VARIABLES
    components_cache,  \* st.cache_data of load_sp500_components: << >> or <<value>>
    quotes_cache,      \* st.cache_data of load_quotes: symbol -> stored frame
    http_gets,         \* requests.get calls made so far
    downloads,         \* yf.download calls made so far
    returned,          \* the values load_sp500_components() has returned so far
    selected,          \* the symbols the asset selectbox has returned so far
    first_stored,      \* symbol -> the frame its first download stored
    runs,              \* re-runs of main() so far
    raised,            \* the exception that ended the last run, "" if none
    asset,             \* main's locals as the last run left them
    data,
    section,
    overlays,
    data_view

vars == <<components_cache, quotes_cache, http_gets, downloads, returned,
          selected, first_stored, runs, raised, asset, data, section,
          overlays, data_view>>

NoFrame == << >>
NoView == [index |-> << >>, cols |-> << >>]
\* The SMA and SMA 2 checkboxes with their period sliders; a period is 0
\* while its checkbox is clear (the slider is not drawn).
NoOverlays == [sma |-> FALSE, period |-> 0, sma2 |-> FALSE, period2 |-> 0]

Init ==
    /\ components_cache = << >>
    /\ quotes_cache = << >>
    /\ http_gets = 0
    /\ downloads = 0
    /\ returned = {}
    /\ selected = {}
    /\ first_stored = << >>
    /\ runs = 0
    /\ raised = ""
    /\ asset = ""
    /\ data = NoFrame
    /\ section = 0
    /\ overlays = NoOverlays
    /\ data_view = NoView

\* Where a run leaves a slider: at its lower end, at its default, or
\* at the last step below its upper end.
Top(slider) ==
    slider.min_value
      + ((slider.max_value - slider.min_value) \div slider.step) * slider.step
Sampled(slider) ==
    {v \in SliderValues(slider) :
        v \in {slider.min_value, slider.value, Top(slider)}}

\* The widget settings <<section, period, period2>> of a run over a frame
\* of `len` rows (a period of 0: the overlay's checkbox is clear).
\* Swept: every sampled setting.  Visited: the page as first drawn, both
\* overlays ticked, the shortest window under the longest mean, and the
\* longest window with both overlays at the same period.
Swept(len) ==
    Sampled(SectionSlider(len))
        \X ({0} \cup Sampled(PeriodSlider))
        \X ({0} \cup Sampled(Period2Slider))
Visited(len) ==
    {<<SectionSlider(len).value, 0, 0>>,
     <<SectionSlider(len).value, PeriodSlider.value, Period2Slider.value>>,
     <<SectionSlider(len).min_value, Top(PeriodSlider), 0>>,
     <<Top(SectionSlider(len)), Top(PeriodSlider), Top(Period2Slider)>>}
Settings(sweep, len) == IF sweep THEN Swept(len) ELSE Visited(len)

\* Lines 79-82 and 84-87: an overlay, when its checkbox is ticked.
WithSma(frame, o, view) ==
    IF o.sma
    THEN SetColumn(view, SmaLabel(o.period),
             RollingReindexed(frame, o.period, view.index))
    ELSE view
\* The second overlay written with the first one's period.
WithSma2OfPeriod(frame, o, view) ==
    IF o.sma2
    THEN SetColumn(view, Sma2Label(o.period2),
             RollingReindexed(frame, o.period, view.index))
    ELSE view
WithSma2(frame, o, view) ==
    IF o.sma2
    THEN SetColumn(view, Sma2Label(o.period2),
             RollingReindexed(frame, o.period2, view.index))
    ELSE view

\* Lines 73-87: the window and its overlays.
View(frame, n, o) ==
    WithSma2(frame, o, WithSma(frame, o, WindowOf(frame, n)))

\* st.cache_data: what a call's return value leaves in an empty cache,
\* and what a store adds to a cache keyed by argument.
NotMemoized(value) == << >>
Memoized(value) == <<value>>
Stored(cache, symbol, frame) ==
    [s \in DOMAIN cache \cup {symbol} |->
        IF s = symbol THEN frame ELSE cache[s]]

\* A cache hit hands main() a copy of the stored frame, and dropna()
\* builds another: what main() does to `local` leaves `stored` as it was.
KeptLocal(stored, local) == local
Kept(stored, local) == stored

\* The run ends at the line that raises; what the script had shown is gone.
Fails(exception) ==
    /\ raised' = exception
    /\ asset' = ""
    /\ data' = NoFrame
    /\ section' = 0
    /\ overlays' = NoOverlays
    /\ data_view' = NoView

\* Lines 69-87 for the asset chosen: load_quotes(asset) is served from
\* the cache, or calls the provider and stores what it returns.
Quotes(symbol, sweep) ==
    LET hit == symbol \in DOMAIN quotes_cache
        frame == IF hit THEN quotes_cache[symbol] ELSE LoadQuotes(symbol)
    IN  /\ downloads' = IF hit THEN downloads ELSE downloads + 1
        /\ first_stored' =
              IF hit THEN first_stored ELSE Stored(first_stored, symbol, frame)
        /\ data' = DropNa(frame)
        /\ quotes_cache' = Stored(quotes_cache, symbol, Kept(frame, data'))
        /\ raised' = ""
        /\ asset' = symbol
        /\ \E setting \in Settings(sweep, Len(data')) :
              /\ section' = setting[1]
              /\ overlays' = [sma |-> setting[2] # 0, period |-> setting[2],
                              sma2 |-> setting[3] # 0, period2 |-> setting[3]]
              /\ data_view' = View(data', section', overlays')

\* Lines 52-87 once the components are loaded: the asset picked, its
\* company record, and, unless showing the record fails, its quotes.
\* 'View Company Info' is ticked or not; it only matters when
\* components.loc[asset] is a DataFrame, which has no to_frame().
Select(components, sweep) ==
    \E symbol \in Options(components) :
        /\ selected' = selected \cup {symbol}
        /\ \/ /\ Loc(components, symbol).type = "DataFrame"
              /\ Fails("AttributeError")
              /\ UNCHANGED <<quotes_cache, downloads, first_stored>>
           \/ Quotes(symbol, sweep)

\* One run of main().
Main(sweep) ==
    /\ runs' = runs + 1
    /\ IF components_cache # << >>
       THEN /\ UNCHANGED <<components_cache, http_gets>>
            /\ returned' = returned \cup {components_cache[1]}
            /\ Select(components_cache[1], sweep)
       ELSE \E response \in Responses :
              LET call == LoadSp500Components(response)
              IN  /\ http_gets' = http_gets + 1
                  /\ IF call.raised # ""
                     THEN /\ Fails(call.raised)
                          /\ UNCHANGED <<components_cache, returned, selected,
                                         quotes_cache, downloads, first_stored>>
                     ELSE /\ components_cache' = Memoized(call.value)
                          /\ returned' = returned \cup {call.value}
                          /\ Select(call.value, sweep)

\* A session: the page is re-run up to MaxRuns times.
Rerun == runs < MaxRuns /\ Main(FALSE)
Next == Rerun
Spec == Init /\ [][Next]_vars

\* The first run of a session, over every sampled widget setting.
FirstRun == runs = 0 /\ Main(TRUE)
NextView == FirstRun
SpecView == Init /\ [][NextView]_vars

----------------------------------------------------------------------------
(* Properties.  Runs of main() that end normally leave raised = "".        *)

Rows == 1..Len(data_view.index)
Ended == raised = ""

\* The row of `data` that the k-th row of the view is lined up with.
Behind(k) == Len(data) - Len(data_view.index) + k

\* The dates of a frame increase strictly.
Increasing(frame) ==
    \A i \in 1..Len(frame) - 1 : frame[i].date < frame[i + 1].date

\* The sum of the adjusted closes of rows lo..hi of a frame, added up
\* directly.
RECURSIVE AdjSum(_, _, _)
AdjSum(frame, lo, hi) ==
    IF lo > hi THEN 0
    ELSE IF lo = hi THEN frame[lo].adj.num
    ELSE AdjSum(frame, lo, (lo + hi) \div 2)
           + AdjSum(frame, (lo + hi) \div 2 + 1, hi)

\* The view is the last n rows of data: their dates and adjusted closes.
IsSuffix(n) ==
    /\ Len(data_view.index) = n
    /\ Len(data_view.cols[AdjClose]) = n
    /\ \A k \in 1..n :
          /\ data_view.index[k] = data[Len(data) - n + k].date
          /\ data_view.cols[AdjClose][k] = data[Len(data) - n + k].adj

NoOverlay == ~overlays.sma /\ ~overlays.sma2

\* C1 as stated: without overlays the view is the last E rows of the
\* series, where a window below 30 gives 30 rows, a window above
\* min(2000, L) gives min(2000, L) rows, and a window of 30 or more gives
\* min(w, L) rows -- also for a series of fewer than 30 rows.
WindowClampedInto30 ==
    (Ended /\ asset # "" /\ NoOverlay) =>
        LET L == Len(data)
            E == IF section < 30 THEN 30
                 ELSE IF section > Min(2000, L) THEN Min(2000, L)
                 ELSE section
        IN  /\ IsSuffix(E)
            /\ section >= 30 => Len(data_view.index) = Min(section, L)

\* C1 as amended: without overlays the view is exactly the last E rows of
\* the series in date order, E = min(max(w, 30), min(2000, L)): the upper
\* bound min(2000, L) wins over the lower bound 30, so a series of fewer
\* than 30 rows is returned whole.
WindowIsClampedSuffix ==
    (Ended /\ asset # "" /\ NoOverlay) =>
        /\ IsSuffix(Min(Max(section, 30), Min(2000, Len(data))))
        /\ DOMAIN data_view.cols = {AdjClose}

\* A series of fewer than 30 rows has been windowed, and one of more than
\* 2000 rows is in the model's reach as well.
ShortSeriesWindowed ==
    /\ Ended /\ NoOverlay
    /\ Len(data) > 0 /\ Len(data) < 30
    /\ Len(data_view.index) = Len(data)

\* The overlay column of period P, when its checkbox is ticked: at the
\* last windowed date, which is the last date of the full series, it holds
\* the mean of the last P adjusted closes of the full series.
LastIsMean(label, P) ==
    LET n == Len(data_view.index)
    IN  /\ label \in DOMAIN data_view.cols
        /\ data_view.index[n] = data[Len(data)].date
        /\ data_view.cols[label][n] =
              Float(AdjSum(data, Len(data) - P + 1, Len(data)), P)

\* C2: for every overlay period and window size, the overlay's value at
\* the last windowed date is the arithmetic mean of the P most recent
\* adjusted closes of the full series (where the series holds P of them),
\* also when P is larger than the window.
OverlayAtLastDateIsFullSeriesMean ==
    (Ended /\ Len(data_view.index) > 0) =>
        /\ (overlays.sma /\ Len(data) >= overlays.period) =>
              LastIsMean(<<"SMA ", overlays.period>>, overlays.period)
        /\ (overlays.sma2 /\ Len(data) >= overlays.period2) =>
              LastIsMean(<<"SMA2 ", overlays.period2>>, overlays.period2)

\* An overlay whose period is larger than the window has a mean at the
\* last windowed date.
PeriodLargerThanWindow ==
    /\ Ended /\ overlays.sma
    /\ Len(data_view.index) > 0
    /\ overlays.period > Len(data_view.index)
    /\ Len(data) >= overlays.period
    /\ data_view.cols[<<"SMA ", overlays.period>>][Len(data_view.index)] # NaN

\* The overlay column of period P has a value exactly at the windowed
\* dates that have at least P rows of the full series up to them.
DefinedFrom(label, P) ==
    /\ label \in DOMAIN data_view.cols
    /\ Len(data_view.cols[label]) = Len(data_view.index)
    /\ \A k \in Rows :
          /\ data[Behind(k)].date = data_view.index[k]
          /\ (data_view.cols[label][k] # NaN) <=> (Behind(k) >= P)
          /\ data_view.cols[label][k] # NaN =>
                data_view.cols[label][k].den = P

\* C3: an overlay value at a windowed date is defined exactly when the
\* full series holds at least P adjusted closes up to and including that
\* date, and is otherwise no value (the run does not fail); with 600 bars,
\* window 500 and period 20 the first 480 of the 500 rows are defined.
OverlayDefinedIffEnoughHistory ==
    Ended =>
        /\ overlays.sma =>
              DefinedFrom(<<"SMA ", overlays.period>>, overlays.period)
        /\ overlays.sma2 =>
              DefinedFrom(<<"SMA2 ", overlays.period2>>, overlays.period2)
        /\ (Len(data) = 600 /\ section = 500 /\ overlays.period = 20) =>
              /\ Len(data_view.index) = 500
              /\ \A k \in 1..480 : data_view.cols[<<"SMA ", 20>>][k] # NaN

\* A view whose overlay has no value at its first dates and a value at
\* its last.
OverlayPartlyDefined ==
    /\ Ended /\ overlays.sma
    /\ Len(data_view.index) > 1
    /\ data_view.cols[<<"SMA ", overlays.period>>][1] = NaN
    /\ data_view.cols[<<"SMA ", overlays.period>>][Len(data_view.index)] # NaN

\* C4 as stated: every series the quotes cache holds has strictly
\* increasing dates and no row with a missing field.
CachedSeriesHaveNoNulls ==
    \A s \in DOMAIN quotes_cache :
        /\ Increasing(quotes_cache[s])
        /\ \A i \in 1..Len(quotes_cache[s]) :
              quotes_cache[s][i].adj # NaN /\ quotes_cache[s][i].vol # NaN

\* C4 as amended: every series load_quotes returns and caches has
\* strictly increasing dates; it may hold incomplete rows, and the series
\* main() works on, load_quotes(asset).dropna(), has strictly increasing
\* dates and no row with a missing field.
SeriesCleanAfterDropNa ==
    /\ \A s \in DOMAIN quotes_cache : Increasing(quotes_cache[s])
    /\ (Ended /\ asset # "") =>
          /\ Increasing(data)
          /\ \A i \in 1..Len(data) : data[i].adj # NaN /\ data[i].vol # NaN
          /\ Len(data) =
                Cardinality({i \in 1..Len(quotes_cache[asset]) :
                               /\ quotes_cache[asset][i].adj # NaN
                               /\ quotes_cache[asset][i].vol # NaN})

\* A run whose cached series held incomplete rows that dropna() removed.
IncompleteRowsDropped ==
    /\ Ended /\ asset # ""
    /\ Len(data) > 0
    /\ Len(data) < Len(quotes_cache[asset])

\* C5: the number of quote downloads equals the number of distinct
\* symbols selected so far.
DownloadsEqualDistinctSelected == downloads = Cardinality(selected)

\* C5, what the code does keep: one download per distinct symbol that
\* reached load_quotes; a selected symbol never reached it only when the
\* components hold its label more than once.
DownloadsEqualDistinctLoaded ==
    /\ downloads = Cardinality(DOMAIN quotes_cache)
    /\ DOMAIN quotes_cache \subseteq selected
    /\ \A s \in selected \ DOMAIN quotes_cache :
          \E c \in returned : Loc(c, s).type = "DataFrame"

\* C6 as stated: over any sequence of runs at most one GET is issued.
AtMostOneGet == http_gets <= 1

\* C6 as amended: load_sp500_components() issues one GET per call made
\* while nothing is cached and none once a call has returned; every call
\* after the first that returned gets a mapping equal to that one.  A
\* call that raises caches nothing, so the next run issues another GET.
OneGetPerMissNoneOnHit ==
    [][/\ components_cache = << >> => http_gets' = http_gets + 1
       /\ components_cache # << >> =>
             /\ http_gets' = http_gets
             /\ components_cache' = components_cache
             /\ returned' = {components_cache[1]}
       /\ Cardinality(returned') <= 1]_vars

\* A later run was served from the components cache.
ComponentsServedFromCache ==
    /\ components_cache # << >>
    /\ http_gets >= 1
    /\ runs > http_gets

\* C7: a symbol the provider does not know makes load_quotes fail with
\* NotFoundError; no series, empty or not, comes back or is cached for it.
UnknownSymbolRaisesNotFound ==
    /\ \A s \in DOMAIN quotes_cache : History(s).known
    /\ asset # "" => History(asset).known

\* C8: load_sp500_components() fails when the table has no symbol column
\* or holds a symbol in more than one row, so every mapping it returns
\* has pairwise distinct symbols.
ReturnedSymbolsDistinct ==
    \A c \in returned :
        \A i, j \in 1..Len(c.index) : c.index[i] = c.index[j] => i = j

\* The view with one overlay's setting replaced agrees with `view` on the
\* dates and on the columns in `keep`.
AgreesOn(other, view, keep) ==
    /\ other.index = view.index
    /\ \A c \in keep :
          c \in DOMAIN other.cols /\ other.cols[c] = view.cols[c]

\* C9: for a fixed series and window, ticking, clearing or moving one
\* overlay leaves the windowed dates, the adjusted-close column and the
\* other overlay's column as they are; each view holds its base column
\* and one column per ticked overlay, also at equal periods.
OverlaysIndependent ==
    (Ended /\ asset # "") =>
        /\ DOMAIN data_view.cols =
              {AdjClose}
                \cup (IF overlays.sma
                      THEN {<<"SMA ", overlays.period>>} ELSE {})
                \cup (IF overlays.sma2
                      THEN {<<"SMA2 ", overlays.period2>>} ELSE {})
        /\ \A p \in {0} \cup Sampled(PeriodSlider) :
              AgreesOn(View(data, section,
                            [overlays EXCEPT !.sma = p # 0, !.period = p]),
                       data_view,
                       {AdjClose}
                         \cup (IF overlays.sma2
                               THEN {<<"SMA2 ", overlays.period2>>}
                               ELSE {}))
        /\ \A p \in {0} \cup Sampled(Period2Slider) :
              AgreesOn(View(data, section,
                            [overlays EXCEPT !.sma2 = p # 0, !.period2 = p]),
                       data_view,
                       {AdjClose}
                         \cup (IF overlays.sma
                               THEN {<<"SMA ", overlays.period>>}
                               ELSE {}))

\* Both overlays are ticked at the same period and hold values.
BothOverlaysSamePeriod ==
    /\ Ended /\ overlays.sma /\ overlays.sma2
    /\ overlays.period = overlays.period2
    /\ Len(data_view.index) > 0
    /\ data_view.cols[<<"SMA2 ", overlays.period2>>][Len(data_view.index)]
         # NaN

====
